---- MODULE Spec2Model ----
(***************************************************************************)
(* A state-machine model of valentines/src/main.js: the gesture classifier *)
(* (hands.onResults), the shape generator (initShapes, createTextPoints),  *)
(* the morph engine and presentation adapter (animate) and the resize      *)
(* listener.                                                               *)
(*                                                                         *)
(* Numbers.  JavaScript numbers are modelled in fixed point.  A world      *)
(* coordinate is an integer count of 1/Unit; an angle, a sine and a value  *)
(* of Math.random() are integer counts of 1/TrigScale.  Every store rounds *)
(* to the nearest representable value, ties to even, as IEEE arithmetic    *)
(* does; the Float32Array of particle positions is the coarsest store of   *)
(* the program and the model's grid stands for it.                         *)
(*                                                                         *)
(* Arrays are 0-based in the source and 1-based here: element i of the     *)
(* source is element i + 1 of the model.                                   *)
(***************************************************************************)
EXTENDS Integers, Sequences, FiniteSets, TLC

\* ------------------------------------------------------------------ bounds

\* PARTICLE_COUNT on a mobile device (8000 in the source), scaled down.
MobileCount == 2
\* PARTICLE_COUNT on a desktop device (15000 in the source), scaled down.
DesktopCount == 3
\* The number of render steps explored in the interleaving specifications.
MaxFrames == 3
\* The number of resize events explored.
MaxResizes == 1
\* The number of render steps explored by the gesture specification.
MaxGestureFrames == 3
\* The number of render steps explored by the decay specification.
MaxDecayFrames == 2
\* The number of render steps explored by the morph specification.
MaxMorphFrames == 61

\* --------------------------------------------------------------- numerics

\* Grid points per world unit.
Unit == 100
\* Grid points per radian, per unit of sine and per unit of Math.random().
TrigScale == Unit * Unit
\* Math.PI
Pi == 31416

Abs(n) == IF n < 0 THEN -n ELSE n

\* The stored value of base + num / den (den > 0): the nearest grid point,
\* a tie going to the even one.
Store(base, num, den) ==
  LET q == num \div den
      r == num % den
      lo == base + q
  IN  IF 2 * r < den THEN lo
      ELSE IF 2 * r > den THEN lo + 1
      ELSE IF lo % 2 = 0 THEN lo ELSE lo + 1

\* The nearest grid point to num / den.
RoundDiv(num, den) == Store(0, num, den)

\* Math.sin on [0, Pi/2], by its Taylor polynomial to the ninth power; a
\* sine is never above 1.
SinQuadrant(x) ==
  LET x2 == (x * x) \div TrigScale
      t4 == TrigScale - (x2 \div 72)
      t3 == TrigScale - ((x2 * t4) \div (42 * TrigScale))
      t2 == TrigScale - ((x2 * t3) \div (20 * TrigScale))
      t1 == TrigScale - ((x2 * t2) \div (6 * TrigScale))
      v == (x * t1) \div TrigScale
  IN  IF v > TrigScale THEN TrigScale ELSE v

\* Math.sin of an angle of any size.
Sin(a) ==
  LET r == a % (2 * Pi)
      h == IF r >= Pi THEN r - Pi ELSE r
      m == IF 2 * h > Pi THEN Pi - h ELSE h
      v == SinQuadrant(m)
  IN  IF r >= Pi THEN -v ELSE v

\* Math.cos
Cos(a) == Sin(a + Pi \div 2)

RECURSIVE Bisect(_, _, _, _)
\* The largest x in lo..hi that passes the test of kind, a test that holds at
\* lo and, once it fails, fails for every larger x.
Bisect(lo, hi, target, kind) ==
  IF lo >= hi THEN lo
  ELSE LET mid == (lo + hi + 1) \div 2
           ok == IF kind = "sqrt" THEN mid * mid <= target
                 ELSE Cos(mid) >= target
       IN  IF ok THEN Bisect(mid, hi, target, kind)
           ELSE Bisect(lo, mid - 1, target, kind)

\* Math.sqrt of v / TrigScale, as a count of 1/TrigScale.
Sqrt(v) == Bisect(0, 46340, v * TrigScale, "sqrt")

\* Math.acos of c / TrigScale: the angle in [0, Pi] whose cosine is c.
Acos(c) == IF c <= -TrigScale THEN Pi ELSE IF c >= TrigScale THEN 0
           ELSE Bisect(0, Pi, c, "acos")


\* ------------------------------------------------------------ configuration

VARIABLES
  isMobile,          \* line 6: the device tier, fixed for the session
  currentGesture,    \* line 11
  time,              \* line 12, in hundredths (one per rendered frame)
  handDisplacement,  \* line 13: <<x, y, z>>
  aspect,            \* camera.aspect, as <<innerWidth, innerHeight>>
  willYouPoints, beMyPoints, valentinesPoints, saturnPoints, randomPoints,
  positions,         \* line 125: posArray, PARTICLE_COUNT * 3 numbers
  materialColor,     \* material.color, <<r, g, b>>
  materialSize,      \* material.size
  systemPosition,    \* particleSystem.position
  targetSet,         \* animate's targetSet at the end of the last render step
  uncaught,          \* the exception the last handler left uncaught
  startPositions,    \* positions when the run began (history)
  regeneration,      \* the number of initShapes calls after startup
  madeBy,            \* for each point set, the initShapes call that made it
  textSamples        \* for each text set, the points array it was filled from

vars == << isMobile, currentGesture, time, handDisplacement, aspect,
           willYouPoints, beMyPoints, valentinesPoints, saturnPoints,
           randomPoints, positions, materialColor, materialSize,
           systemPosition, targetSet, uncaught, startPositions,
           regeneration, madeBy, textSamples >>

gestureVars == << currentGesture, handDisplacement >>

shapeVars == << aspect, willYouPoints, beMyPoints, valentinesPoints,
                saturnPoints, randomPoints, regeneration, madeBy,
                textSamples >>

renderVars == << time, positions, materialColor, materialSize,
                 systemPosition, targetSet >>

\* line 7
PARTICLE_COUNT == IF isMobile THEN MobileCount ELSE DesktopCount

\* line 8, in hundredths
SMOOTHING == 8
\* line 9, in hundredths
ELASTICITY == 5
\* line 169: the decay of the hand displacement, in hundredths
DECAY == 5
\* line 208: the amplitude of the idle drift, in hundredths
DRIFT == 4
\* lines 194-199: the blend factor of the colour, in hundredths
COLOR_BLEND == 10
\* line 18: camera.fov, in degrees
FOV == 75
\* line 27: camera.position.z
CAMERA_Z == 35

Gestures == {"none", "peace", "rock", "like", "fist", "detected"}

\* No exception: the handler returned.
NoError == [handler |-> "none", error |-> "none", nanIndex |-> FALSE]

\* The TypeError of reading a property of undefined, thrown in handler h;
\* nanIndex tells whether undefined came from an index that is NaN.
TypeError(h, nan) == [handler |-> h, error |-> "TypeError", nanIndex |-> nan]

\* THREE.Vector3.lerp, THREE.Color.lerp: v += (w - v) * alpha, per component.
Lerp(v, w, alpha) ==
  [k \in 1..3 |-> Store(v[k], (w[k] - v[k]) * alpha, 100)]

\* new THREE.Color(hex): the three channels of 0xRRGGBB.
Color(r, g, b) == << r * Unit, g * Unit, b * Unit >>

\* 0xff4488
WARM == Color(255, 68, 136)
\* 0x00ccff
COOL == Color(0, 204, 255)
\* 0x666666
NEUTRAL == Color(102, 102, 102)

\* lines 129, 195: the base point size, 0.35 or 0.15
BaseSize(mobile) == IF mobile THEN (35 * Unit) \div 100 ELSE (15 * Unit) \div 100

\* line 104: the device-tier scale of the planet, in tenths
TierScale(mobile) == IF mobile THEN 6 ELSE 10

\* ----------------------------------------------------------- shape generator

\* lines 46-53: the responsive scale for camera.aspect = w / h, in millionths.
getResponsiveScale(asp) ==
  LET half == RoundDiv(FOV * Pi, 360)                 \* degToRad(fov) / 2
      tan == RoundDiv(Sin(half) * TrigScale, Cos(half))
      height == 2 * tan * CAMERA_Z                    \* in 1/TrigScale
  IN  RoundDiv(height * asp[1] * 80, asp[2] * 512)

\* lines 58-59: the canvas
CANVAS_WIDTH == 512
CANVAS_HEIGHT == 128

\* line 72: a pixel <<x, y, red>> the scan of lines 70-75 keeps.
Sampled(px) ==
  /\ px[1] \in 0..(CANVAS_WIDTH - 1) /\ px[1] % 2 = 0
  /\ px[2] \in 0..(CANVAS_HEIGHT - 1) /\ px[2] % 2 = 0
  /\ px[3] > 128

RECURSIVE ScanOrder(_)
\* lines 70-71: the pixels of a set in the order of the scan, rows first.
ScanOrder(pixels) ==
  IF pixels = {} THEN << >>
  ELSE LET first == CHOOSE p \in pixels :
                      \A q \in pixels :
                        \/ p[2] < q[2]
                        \/ p[2] = q[2] /\ p[1] <= q[1]
       IN  << first >> \o ScanOrder(pixels \ {first})

\* line 73: the point of a kept pixel.
TextPoint(px, scale) ==
  << RoundDiv((px[1] - 256) * scale, Unit * Unit),
     RoundDiv((64 - px[2]) * scale, Unit * Unit),
     0 >>

\* lines 67-76: the points array of a bitmap, a set of pixels <<x, y, red>>.
ScanPoints(bitmap, scale) ==
  LET kept == ScanOrder({px \in bitmap : Sampled(px)})
  IN  [k \in 1..Len(kept) |-> TextPoint(kept[k], scale)]

\* CycleFill returning the points array itself, not cycled to count.
CycleFillNoWrap(points, count) ==
  IF count > 0 /\ Len(points) = 0
    THEN [threw |-> TRUE, nanIndex |-> TRUE, value |-> << >>,
          points |-> points]
    ELSE [threw |-> FALSE, nanIndex |-> FALSE,
          value |-> [i \in 1..(IF Len(points) < count THEN Len(points)
                               ELSE count) |-> points[i]],
          points |-> points]

\* lines 77-79: Array.from({length: count}, (_, i) => points[i % points.length]
\* .clone()).  With no point, i % 0 is NaN, points[NaN] is undefined and
\* undefined.clone() throws a TypeError.
CycleFill(points, count) ==
  IF count > 0 /\ Len(points) = 0
    THEN [threw |-> TRUE, nanIndex |-> TRUE, value |-> << >>,
          points |-> points]
    ELSE [threw |-> FALSE, nanIndex |-> FALSE,
          value |-> [i \in 1..count |-> points[((i - 1) % Len(points)) + 1]],
          points |-> points]

\* lines 55-80, for camera.aspect = asp.  The result holds the points array
\* beside the returned value, or the exception.
createTextPoints(bitmap, count, asp) ==
  CycleFill(ScanPoints(bitmap, getResponsiveScale(asp)), count)

\* Math.random(): call k of a regeneration seeded with seed, in 1/TrigScale.
Random(seed, k) == (seed + k * 3917) % TrigScale

\* lines 92-100: the dispersed cloud takes random calls 0 .. 3 * count - 1.
RandomCloud(count, seed) ==
  [i \in 1..count |->
     [k \in 1..3 |->
        RoundDiv((Random(seed, 3 * (i - 1) + (k - 1)) - TrigScale \div 2)
                   * 60 * Unit, TrigScale)]]

\* THREE.Vector3.setFromSphericalCoords(radius, phi, theta)
SphericalPoint(radius, phi, theta) ==
  LET sinPhiRadius == RoundDiv(Sin(phi) * radius, TrigScale)
  IN  << RoundDiv(sinPhiRadius * Sin(theta), TrigScale),
         RoundDiv(Cos(phi) * radius, TrigScale),
         RoundDiv(sinPhiRadius * Cos(theta), TrigScale) >>

\* CoreRadius without the device-tier scale s.
CoreRadiusUnscaled(mobile) == 15 * Unit

\* line 108: the radius of the planet's core, 15 * s.
CoreRadius(mobile) == (15 * TierScale(mobile) * Unit) \div 10

\* lines 105-108: core point i (from 0) of the planet.
CorePoint(i, count, mobile) ==
  LET phi == Acos(RoundDiv(20 * i * TrigScale, 4 * count) - TrigScale)
      theta == RoundDiv(Sqrt(RoundDiv(4 * count * Pi, 10)) * phi, TrigScale)
  IN  SphericalPoint(CoreRadius(mobile), phi, theta)

\* lines 110-116: a ring point of the planet, from three random calls.
RingPoint(r1, r2, r3, mobile) ==
  LET angle == RoundDiv(r1 * 2 * Pi, TrigScale)
      radius == RoundDiv((20 * TrigScale + r2 * 6) * TierScale(mobile) * Unit,
                         10 * TrigScale)
  IN  << RoundDiv(Cos(angle) * radius, TrigScale),
         RoundDiv((r3 - TrigScale \div 2) * 6 * Unit, 10 * TrigScale),
         RoundDiv(Sin(angle) * radius, TrigScale) >>

\* The number of core points: the i with i < PARTICLE_COUNT * 0.4.
CoreCount(count) == Cardinality({i \in 0..(count - 1) : 10 * i < 4 * count})

\* lines 102-118: the ring's random calls follow the cloud's.
SaturnPoints(count, mobile, seed) ==
  [i \in 1..count |->
     IF 10 * (i - 1) < 4 * count
       THEN CorePoint(i - 1, count, mobile)
       ELSE LET k == 3 * count + 3 * ((i - 1) - CoreCount(count))
            IN  RingPoint(Random(seed, k), Random(seed, k + 1),
                          Random(seed, k + 2), mobile)]

SetNames == {"willYou", "beMy", "valentines", "random", "saturn"}

\* lines 88-118: the assignments of initShapes, call number gen, given what
\* the three createTextPoints calls returned and the two Array.from results.
\* old holds the five globals, the stamps and the samples before the call;
\* the result holds them after it, with the exception that ended it, if any.
\* An assignment is made only when its right-hand side returned.
AssignShapes(old, wy, bm, vl, cloud, saturn, gen) ==
  IF wy.threw
    THEN [old EXCEPT !.uncaught = TypeError("initShapes", wy.nanIndex)]
  ELSE IF bm.threw
    THEN [old EXCEPT !.willYou = wy.value,
                     !.madeBy["willYou"] = gen,
                     !.samples["willYou"] = wy.points,
                     !.uncaught = TypeError("initShapes", bm.nanIndex)]
  ELSE IF vl.threw
    THEN [old EXCEPT !.willYou = wy.value,
                     !.madeBy["willYou"] = gen,
                     !.samples["willYou"] = wy.points,
                     !.beMy = bm.value,
                     !.madeBy["beMy"] = gen,
                     !.samples["beMy"] = bm.points,
                     !.uncaught = TypeError("initShapes", vl.nanIndex)]
  ELSE [willYou |-> wy.value, beMy |-> bm.value, valentines |-> vl.value,
        random |-> cloud, saturn |-> saturn,
        madeBy |-> [n \in SetNames |-> gen],
        samples |-> [n \in {"willYou", "beMy", "valentines"} |->
                       IF n = "willYou" THEN wy.points
                       ELSE IF n = "beMy" THEN bm.points ELSE vl.points],
        uncaught |-> NoError]

\* lines 85-119: initShapes as call number gen, with the rasterizer drawing
\* rendering[text] for each text and Math.random() seeded with seed.
initShapes(old, count, mobile, asp, rendering, seed, gen) ==
  AssignShapes(old,
               createTextPoints(rendering["WILL YOU"], count, asp),
               createTextPoints(rendering["BE MY"], count, asp),
               createTextPoints(rendering["VALENTINE?"], count, asp),
               RandomCloud(count, seed),
               SaturnPoints(count, mobile, seed),
               gen)

\* The state of lines 83-119 before initShapes first runs.
NoShapes ==
  [willYou |-> << >>, beMy |-> << >>, valentines |-> << >>,
   random |-> << >>, saturn |-> << >>,
   madeBy |-> [n \in SetNames |-> -1],
   samples |-> [n \in {"willYou", "beMy", "valentines"} |-> << >>],
   uncaught |-> NoError]

\* The five globals as initShapes reads and writes them.
CurrentShapes ==
  [willYou |-> willYouPoints, beMy |-> beMyPoints,
   valentines |-> valentinesPoints, random |-> randomPoints,
   saturn |-> saturnPoints, madeBy |-> madeBy, samples |-> textSamples,
   uncaught |-> uncaught]

\* --------------------------------------------------------- gesture classifier

\* Grid points per unit of a normalized landmark coordinate.
LandmarkScale == 12 * Unit

\* A finger of a landmark frame: the y of its tip and of its lower joint.
Poses == {"up", "down", "level"}

TipY(pose) == IF pose = "up" THEN 4 * Unit ELSE 5 * Unit

JointY(pose) == IF pose = "down" THEN 4 * Unit ELSE 5 * Unit

\* One hand's landmarks, the first len of the 21: landmark k (from 0) is
\* element k + 1.
Hand(len, wrist, index, middle, pinky, thumb) ==
  [k \in 1..len |->
     LET y == CASE k - 1 = 0 -> wrist[2]
                [] k - 1 = 8 -> TipY(index)   [] k - 1 = 6 -> JointY(index)
                [] k - 1 = 12 -> TipY(middle) [] k - 1 = 10 -> JointY(middle)
                [] k - 1 = 20 -> TipY(pinky)  [] k - 1 = 18 -> JointY(pinky)
                [] k - 1 = 4 -> TipY(thumb)   [] k - 1 = 2 -> JointY(thumb)
                [] OTHER -> 6 * Unit
     IN  [x |-> IF k - 1 = 0 THEN wrist[1] ELSE 6 * Unit, y |-> y]]

\* The argument of the onResults callback.
Results(hands) == [multiHandLandmarks |-> hands]

\* lines 157-160
indexUp(lm) == lm[9].y < lm[7].y
middleUp(lm) == lm[13].y < lm[11].y
pinkyUp(lm) == lm[21].y < lm[19].y
thumbUp(lm) == lm[5].y < lm[3].y

\* Classify with the fist rule tried before the like rule.
ClassifyFistFirst(index, middle, pinky, thumb) ==
  IF index /\ middle /\ ~pinky THEN "peace"
  ELSE IF index /\ pinky /\ ~middle THEN "rock"
  ELSE IF ~index /\ ~middle /\ ~pinky THEN "fist"
  ELSE IF thumb /\ ~index /\ ~middle THEN "like"
  ELSE "detected"

\* lines 162-166
Classify(index, middle, pinky, thumb) ==
  IF index /\ middle /\ ~pinky THEN "peace"
  ELSE IF index /\ pinky /\ ~middle THEN "rock"
  ELSE IF thumb /\ ~index /\ ~middle THEN "like"
  ELSE IF ~index /\ ~middle /\ ~pinky THEN "fist"
  ELSE "detected"

\* lines 154-155
WristDisplacement(lm, old) ==
  << RoundDiv((lm[1].x - LandmarkScale \div 2) * (-40) * Unit, LandmarkScale),
     RoundDiv((LandmarkScale \div 2 - lm[1].y) * 30 * Unit, LandmarkScale),
     old[3] >>

\* Decayed snapping to zero: handDisplacement.set(0, 0, 0).
DecayedSnap(v) == << 0, 0, 0 >>

\* line 169: handDisplacement.lerp(new THREE.Vector3(0, 0, 0), 0.05)
Decayed(v) == Lerp(v, << 0, 0, 0 >>, DECAY)

\* lines 150-171: the landmark handler.  Reading a property of a landmark the
\* collection does not hold throws a TypeError: at line 154 when it holds
\* none, at lines 157-160 when it holds some but not all of 2..20, after the
\* displacement was written.
OnResults(results) ==
  /\ IF Len(results.multiHandLandmarks) > 0
       THEN LET lm == results.multiHandLandmarks[1]
            IN  IF Len(lm) < 1
                  THEN /\ uncaught' = TypeError("onResults", FALSE)
                       /\ UNCHANGED gestureVars
                ELSE IF Len(lm) < 21
                  THEN /\ uncaught' = TypeError("onResults", FALSE)
                       /\ handDisplacement' =
                            WristDisplacement(lm, handDisplacement)
                       /\ UNCHANGED currentGesture
                ELSE /\ uncaught' = NoError
                     /\ handDisplacement' =
                          WristDisplacement(lm, handDisplacement)
                     /\ currentGesture' =
                          Classify(indexUp(lm), middleUp(lm), pinkyUp(lm),
                                   thumbUp(lm))
       ELSE /\ uncaught' = NoError
            /\ currentGesture' = "none"
            /\ handDisplacement' = Decayed(handDisplacement)
  /\ UNCHANGED << isMobile, shapeVars, renderVars, startPositions >>

\* ------------------------------------------- morph engine and presentation

\* TargetSetFor with the like branch of line 190 left out.
TargetSetForNoLike(gesture) ==
  IF gesture = "fist" THEN "saturn"
  ELSE IF gesture = "peace" THEN "willYou"
  ELSE IF gesture = "rock" THEN "beMy"
  ELSE "null"

\* lines 185-190: the set animate selects, by name; "null" for none.
TargetSetFor(gesture) ==
  IF gesture = "fist" THEN "saturn"
  ELSE IF gesture = "peace" THEN "willYou"
  ELSE IF gesture = "rock" THEN "beMy"
  ELSE IF gesture = "like" THEN "valentines"
  ELSE "null"

\* lines 193-200: the colour the material eases toward.
ColorFor(gesture) ==
  IF gesture = "like" THEN WARM
  ELSE IF gesture # "none" THEN COOL
  ELSE NEUTRAL

\* line 195: the point size while the gesture is like.
SizeFor(gesture, size, t, mobile) ==
  IF gesture = "like"
    THEN BaseSize(mobile)
           + RoundDiv(Sin(t * 5 * (TrigScale \div 100)) * 5 * Unit,
                      100 * TrigScale)
    ELSE size

\* DriftNum with an amplitude of 0.4.
DriftNumTenfold(t, i) ==
  Sin((t + 100 * i) * (TrigScale \div 100)) * 10 * DRIFT * Unit

\* line 208: Math.sin(time + i) * 0.04 as a numerator over 100 * TrigScale.
DriftNum(t, i) == Sin((t + 100 * i) * (TrigScale \div 100)) * DRIFT * Unit

\* MorphedPositions with the drift of line 208 added whether idle or not.
MorphedPositionsAlwaysDrift(buffer, target, idle, t) ==
  [j \in 1..Len(buffer) |->
     LET i == (j - 1) \div 3
         k == ((j - 1) % 3) + 1
     IN  Store(buffer[j],
               (target[i + 1][k] - buffer[j]) * SMOOTHING * TrigScale
                 + DriftNum(t, i),
               100 * TrigScale)]

\* lines 205-212: the buffer after one pass of the loop at time t; target is
\* the selected set, or the dispersed cloud when idle.
MorphedPositions(buffer, target, idle, t) ==
  [j \in 1..Len(buffer) |->
     LET i == (j - 1) \div 3
         k == ((j - 1) % 3) + 1
     IN  Store(buffer[j],
               (target[i + 1][k] - buffer[j]) * SMOOTHING * TrigScale
                 + (IF idle THEN DriftNum(t, i) ELSE 0),
               100 * TrigScale)]

\* The point set of a name.
PointSet(name) ==
  CASE name = "saturn" -> saturnPoints
    [] name = "willYou" -> willYouPoints
    [] name = "beMy" -> beMyPoints
    [] name = "valentines" -> valentinesPoints
    [] OTHER -> randomPoints

\* lines 183-217: one render step.
Animate ==
  /\ time' = time + 1
  /\ targetSet' = TargetSetFor(currentGesture)
  /\ materialColor' = Lerp(materialColor, ColorFor(currentGesture), COLOR_BLEND)
  /\ materialSize' = SizeFor(currentGesture, materialSize, time', isMobile)
  /\ systemPosition' = Lerp(systemPosition, handDisplacement, ELASTICITY)
  /\ positions' = MorphedPositions(positions, PointSet(targetSet'),
                                   targetSet' = "null", time')
  /\ uncaught' = NoError
  /\ UNCHANGED << isMobile, gestureVars, shapeVars, startPositions >>

\* ------------------------------------------------------------------ resize

\* The globals of line 83 after an initShapes call that left them as r.
ShapesBecome(r) ==
  /\ willYouPoints' = r.willYou
  /\ beMyPoints' = r.beMy
  /\ valentinesPoints' = r.valentines
  /\ randomPoints' = r.random
  /\ saturnPoints' = r.saturn
  /\ madeBy' = r.madeBy
  /\ textSamples' = r.samples
  /\ uncaught' = r.uncaught

\* lines 221-231: the resize listener, for a window of size[1] by size[2].
OnResize(size, rendering, seed) ==
  /\ aspect' = size
  /\ regeneration' = regeneration + 1
  /\ ShapesBecome(initShapes(CurrentShapes, PARTICLE_COUNT, isMobile, size,
                             rendering, seed, regeneration + 1))
  /\ UNCHANGED << isMobile, gestureVars, renderVars, startPositions >>

\* ------------------------------------------------------------- environment

\* What the text rasterizer may draw: sets of pixels <<x, y, red>>.
TwoPixels == { <<100, 50, 255>>, <<300, 70, 255>>, <<301, 70, 255>>,
               <<200, 60, 100>> }
CentrePixel == { <<256, 64, 255>> }
FivePixels == { <<10, 10, 255>>, <<20, 10, 200>>, <<10, 20, 255>>,
                <<500, 126, 129>>, <<256, 100, 255>>, <<40, 41, 255>> }
OddPixels == { <<101, 51, 255>>, <<255, 64, 255>> }
Blank == {}

Rendering(wy, bm, vl) ==
  [t \in {"WILL YOU", "BE MY", "VALENTINE?"} |->
     IF t = "WILL YOU" THEN wy ELSE IF t = "BE MY" THEN bm ELSE vl]

\* Renderings in which every text has a pixel the scan keeps.
GoodRenderings == { Rendering(TwoPixels, CentrePixel, FivePixels),
                    Rendering(CentrePixel, TwoPixels, TwoPixels) }

\* Renderings in which some text has none.
BadRenderings == { Rendering(Blank, TwoPixels, TwoPixels),
                   Rendering(TwoPixels, OddPixels, CentrePixel),
                   Rendering(CentrePixel, TwoPixels, Blank) }

\* Seeds of Math.random().
Seeds == {0, 6180}

\* Window shapes.
Windows == { <<16, 9>>, <<9, 16>> }

\* Resize events: the new window, what the rasterizer draws, the seed.
ResizeEvents ==
  { << <<9, 16>>, r, 6180 >> : r \in GoodRenderings }
    \cup { << <<16, 9>>, Rendering(TwoPixels, CentrePixel, FivePixels), 0 >> }
    \cup { << <<9, 16>>, r, 0 >> : r \in BadRenderings }

NoHand == Results(<< >>)

\* Frames with all 21 landmarks.
FullFrames(wrists, poses) ==
  { Results(<< Hand(21, w, a, b, c, d) >>) :
      w \in wrists, a \in poses, b \in poses, c \in poses, d \in poses }

\* Frames that report a hand with fewer than 21 landmarks.
ShortFrames(wrists, lengths) ==
  { Results(<< Hand(n, w, "up", "up", "down", "down") >>) :
      w \in wrists, n \in lengths }

\* ----------------------------------------------------------- specifications

\* The state once lines 1-217 have run and left the globals of line 83 as s,
\* but for the gesture and the particle buffer.
Constructed(mobile, size, s) ==
  /\ s.uncaught.error = "none"
  /\ isMobile = mobile
  /\ aspect = size
  /\ willYouPoints = s.willYou
  /\ beMyPoints = s.beMy
  /\ valentinesPoints = s.valentines
  /\ randomPoints = s.random
  /\ saturnPoints = s.saturn
  /\ madeBy = s.madeBy
  /\ textSamples = s.samples
  /\ regeneration = 0
  /\ handDisplacement = << 0, 0, 0 >>
  /\ time = 1
  /\ targetSet = "null"
  /\ materialColor = Lerp(NEUTRAL, NEUTRAL, COLOR_BLEND)
  /\ materialSize = BaseSize(mobile)
  /\ systemPosition = Lerp(<< 0, 0, 0 >>, << 0, 0, 0 >>, ELASTICITY)
  /\ uncaught = NoError

\* lines 1-217 for a device tier, a window, a rendering and a seed:
\* initShapes() of line 121 returned.
Started(mobile, size, rendering, seed) ==
  Constructed(mobile, size,
              initShapes(NoShapes, IF mobile THEN MobileCount ELSE DesktopCount,
                         mobile, size, rendering, seed, 0))

\* The state once the module has run: animate() of line 218 made its first
\* pass, over the zeroed buffer of line 125 and with no gesture yet.
Init ==
  /\ \E mobile \in BOOLEAN :
       Started(mobile, << 16, 9 >>,
               Rendering(TwoPixels, CentrePixel, FivePixels), 0)
  /\ currentGesture = "none"
  /\ positions = MorphedPositions([j \in 1..(3 * PARTICLE_COUNT) |-> 0],
                                  randomPoints, TRUE, 1)
  /\ startPositions = positions

\* The frames of the interleaving specification: no hand, a hand in a pose
\* of each gesture, and a hand with landmarks missing.
Frames ==
  {NoHand}
    \cup { Results(<< Hand(21, <<597, 604>>, p[1], p[2], p[3], p[4]) >>) :
             p \in { <<"up", "up", "down", "down">>,
                     <<"up", "down", "up", "down">>,
                     <<"down", "down", "down", "up">>,
                     <<"down", "down", "down", "down">>,
                     <<"up", "up", "up", "up">> } }
    \cup ShortFrames({ <<597, 604>> }, {9})

Landmarks == \E results \in Frames : OnResults(results)

Render == time < MaxFrames /\ Animate

Resize ==
  /\ regeneration < MaxResizes
  /\ \E e \in ResizeEvents : OnResize(e[1], e[2], e[3])

Next == Landmarks \/ Render \/ Resize

\* Landmark, render and resize events in any order.
Spec == Init /\ [][Next]_vars

\* Hands with all 21 landmarks: the sixteen combinations of fingers up and
\* down, and each finger level in turn beside three fingers up.
PosedFrames ==
  FullFrames({ <<600, 600>> }, {"up", "down"})
    \cup { Results(<< Hand(21, <<600, 600>>, p[1], p[2], p[3], p[4]) >>) :
             p \in { <<"level", "up", "up", "up">>, <<"up", "level", "up", "up">>,
                     <<"up", "up", "level", "up">>, <<"up", "up", "up", "level">> } }

\* The frames of the gesture specification: the posed hands, no hand, and
\* hands with landmarks missing.
GestureFrames ==
  {NoHand} \cup PosedFrames \cup ShortFrames({ <<597, 604>> }, {0, 1, 9, 20})

InitGesture ==
  /\ \E mobile \in BOOLEAN :
       Started(mobile, << 16, 9 >>,
               Rendering(TwoPixels, CentrePixel, FivePixels), 0)
  /\ currentGesture = "none"
  /\ positions = MorphedPositions([j \in 1..(3 * PARTICLE_COUNT) |-> 0],
                                  randomPoints, TRUE, 1)
  /\ startPositions = positions

GestureLandmarks == \E results \in GestureFrames : OnResults(results)

GestureRender == time < MaxGestureFrames /\ Animate

NextGesture == GestureLandmarks \/ GestureRender

\* Landmark and render events in any order, over every pose.
SpecGesture == InitGesture /\ [][NextGesture]_vars

\* The frames of the decay specification: a hand whose wrist puts the
\* displacement at (10, -5, 0), and no hand.
DecayFrames ==
  { NoHand, Results(<< Hand(21, <<300, 800>>, "up", "up", "down", "down") >>) }

InitDecay ==
  /\ Started(FALSE, << 16, 9 >>,
             Rendering(TwoPixels, CentrePixel, FivePixels), 0)
  /\ currentGesture = "none"
  /\ positions = MorphedPositions([j \in 1..(3 * PARTICLE_COUNT) |-> 0],
                                  randomPoints, TRUE, 1)
  /\ startPositions = positions

DecayLandmarks == \E results \in DecayFrames : OnResults(results)

DecayRender == time < MaxDecayFrames /\ Animate

NextDecay == DecayLandmarks \/ DecayRender

\* Landmark and render events in any order, the hand coming and going.
SpecDecay == InitDecay /\ [][NextDecay]_vars

\* The points of a set, flattened as the particle buffer is.
Flat(set) == [j \in 1..(3 * Len(set)) |-> set[((j - 1) \div 3) + 1][((j - 1) % 3) + 1]]

\* Offsets of a start buffer from the target, by pattern: none, within the
\* rounding of the buffer, within the drift, far, and the zeroed buffer.
StartOffset(pattern, j, target) ==
  CASE pattern = 0 -> 0
    [] pattern = 1 -> ((j * 5) % 13) - 6
    [] pattern = 2 -> ((j * 37) % 101) - 50
    [] pattern = 3 -> (IF j % 2 = 0 THEN 1 ELSE -1) * 1000 * j
    [] OTHER -> -target

StartBuffer(pattern, target) ==
  [j \in 1..Len(target) |-> target[j] + StartOffset(pattern, j, target[j])]

\* A running program with any gesture and any of the start buffers.
InitMorph ==
  /\ \E mobile \in BOOLEAN, rendering \in GoodRenderings, seed \in Seeds :
       Started(mobile, << 16, 9 >>, rendering, seed)
  /\ currentGesture \in Gestures
  /\ \E pattern \in 0..4 :
       positions = StartBuffer(pattern,
                               Flat(PointSet(TargetSetFor(currentGesture))))
  /\ startPositions = positions

MorphRender == time < MaxMorphFrames /\ Animate

NextMorph == MorphRender

\* Render steps alone: no gesture change and no resize.
SpecMorph == InitMorph /\ [][NextMorph]_vars
\* -------------------------------------------------------------------- claims

\* The priority table of the classifier, first match first.
C1_Rules ==
  << [index |-> {TRUE}, middle |-> {TRUE}, pinky |-> {FALSE},
      thumb |-> BOOLEAN, gesture |-> "peace"],
     [index |-> {TRUE}, middle |-> {FALSE}, pinky |-> {TRUE},
      thumb |-> BOOLEAN, gesture |-> "rock"],
     [index |-> {FALSE}, middle |-> {FALSE}, pinky |-> BOOLEAN,
      thumb |-> {TRUE}, gesture |-> "like"],
     [index |-> {FALSE}, middle |-> {FALSE}, pinky |-> {FALSE},
      thumb |-> BOOLEAN, gesture |-> "fist"],
     [index |-> BOOLEAN, middle |-> BOOLEAN, pinky |-> BOOLEAN,
      thumb |-> BOOLEAN, gesture |-> "detected"] >>

C1_Table(index, middle, pinky, thumb) ==
  LET matching == { n \in 1..5 : /\ index \in C1_Rules[n].index
                                 /\ middle \in C1_Rules[n].middle
                                 /\ pinky \in C1_Rules[n].pinky
                                 /\ thumb \in C1_Rules[n].thumb }
      first == CHOOSE n \in matching : \A m \in matching : n <= m
  IN  C1_Rules[first].gesture

\* C1: a landmark frame with a detected hand sets the gesture by the priority
\* table applied to the four booleans (a finger is up when its tip is above
\* its joint), whatever the gesture, the time and the displacement were.
C1_ClassificationFollowsTable ==
  [][\A f \in PosedFrames :
       LET lm == f.multiHandLandmarks[1]
       IN  OnResults(f) =>
             currentGesture' = C1_Table(lm[9].y < lm[7].y, lm[13].y < lm[11].y,
                                        lm[21].y < lm[19].y, lm[5].y < lm[3].y)
    ]_vars

\* A hand was classified by the fallback after a render step.
C1_Witness ==
  /\ currentGesture = "detected"
  /\ uncaught = NoError
  /\ time > 1

\* C2: a landmark update with no hand sets the gesture to none and moves each
\* component of the displacement to 0.95 of itself, to the rounding of the
\* store: it does not grow, does not change sign and is not snapped to zero;
\* a render step leaves the displacement as it was.
C2_NoHandDecays ==
  [][/\ OnResults(NoHand) =>
          /\ currentGesture' = "none"
          /\ \A k \in 1..3 :
               /\ 2 * Abs(100 * handDisplacement'[k]
                            - (100 - DECAY) * handDisplacement[k]) <= 100
               /\ Abs(handDisplacement'[k]) <= Abs(handDisplacement[k])
               /\ handDisplacement'[k] * handDisplacement[k] >= 0
               /\ handDisplacement[k] # 0 => handDisplacement'[k] # 0
               /\ 2 * DECAY * Abs(handDisplacement[k]) > 100
                    => Abs(handDisplacement'[k]) < Abs(handDisplacement[k])
     /\ time' # time => handDisplacement' = handDisplacement
    ]_vars

\* Ten updates with no hand after the displacement was (10, -5, 0), with a
\* render step somewhere before.
C2_Witness ==
  /\ handDisplacement = << 598, -299, 0 >>
  /\ currentGesture = "none"
  /\ time > 1

\* The offset of buffer entry j from its target in a set.
OffsetFrom(buffer, set, j) == buffer[j] - Flat(set)[j]

\* The squared distance of particle i (from 1) from its target in a set.
Distance2(buffer, set, i) ==
  LET dx == OffsetFrom(buffer, set, 3 * i - 2)
      dy == OffsetFrom(buffer, set, 3 * i - 1)
      dz == OffsetFrom(buffer, set, 3 * i)
  IN  dx * dx + dy * dy + dz * dz

\* The gestures that select a target set.
C3_Targeting == {"fist", "peace", "rock", "like"}

\* The target of a gesture, as the claims name it.
C3_Target(gesture) ==
  CASE gesture = "fist" -> saturnPoints
    [] gesture = "peace" -> willYouPoints
    [] gesture = "rock" -> beMyPoints
    [] gesture = "like" -> valentinesPoints
    [] OTHER -> randomPoints

\* C3 as stated: with a target selected, every render step strictly decreases
\* each particle's distance to its target, and after 60 render steps every
\* offset is below 1% of the initial one.
C3_StrictConvergence ==
  [][(currentGesture \in C3_Targeting /\ time' = time + 1) =>
       /\ \A i \in 1..PARTICLE_COUNT :
            Distance2(positions', C3_Target(currentGesture), i)
              < Distance2(positions, C3_Target(currentGesture), i)
       /\ time' = 61 =>
            \A j \in 1..(3 * PARTICLE_COUNT) :
              100 * Abs(OffsetFrom(positions', C3_Target(currentGesture), j))
                < Abs(OffsetFrom(startPositions, C3_Target(currentGesture), j))
    ]_vars

\* C3 as amended: with a target selected, a render step moves each offset to
\* 0.92 of itself, to the rounding of the buffer and with no drift: no
\* offset grows or changes sign, an offset of zero stays zero, an offset
\* above the rounding threshold 0.5 / 0.08 strictly shrinks, and after 60
\* render steps each offset is within 1% of the initial one plus that
\* threshold.
C3_ConvergenceToRounding ==
  [][(currentGesture \in C3_Targeting /\ time' = time + 1) =>
       \A j \in 1..(3 * PARTICLE_COUNT) :
         LET o == OffsetFrom(positions, C3_Target(currentGesture), j)
             n == OffsetFrom(positions', C3_Target(currentGesture), j)
             o0 == OffsetFrom(startPositions, C3_Target(currentGesture), j)
         IN  /\ 2 * Abs(100 * n - (100 - SMOOTHING) * o) <= 100
             /\ Abs(n) <= Abs(o)
             /\ n * o >= 0
             /\ 2 * SMOOTHING * Abs(o) > 100 => Abs(n) < Abs(o)
             /\ time' >= 61 =>
                  2 * SMOOTHING * 100 * Abs(n)
                    <= 2 * SMOOTHING * Abs(o0) + 100 * 100
    ]_vars

\* Sixty render steps toward WILL YOU have left a particle short of its
\* target, where it stays.
C3_Witness ==
  /\ time = 61
  /\ currentGesture = "peace"
  /\ positions # startPositions
  /\ \E j \in 1..(3 * PARTICLE_COUNT) :
       /\ OffsetFrom(positions, willYouPoints, j) # 0
       /\ Abs(OffsetFrom(startPositions, willYouPoints, j)) >= 1000

\* The largest of two numbers.
Max(a, b) == IF a > b THEN a ELSE b

\* C4: while idle, a render step maps each offset o from the dispersed cloud
\* to 0.92 * o + d with |d| <= 0.04, to the rounding of the buffer, and no
\* offset ever exceeds the larger of its initial size and 0.5.
C4_IdleDriftBounded ==
  [][(currentGesture \in {"none", "detected"} /\ time' = time + 1) =>
       \A j \in 1..(3 * PARTICLE_COUNT) :
         LET o == OffsetFrom(positions, randomPoints, j)
             n == OffsetFrom(positions', randomPoints, j)
             o0 == OffsetFrom(startPositions, randomPoints, j)
         IN  /\ 2 * Abs(100 * n - (100 - SMOOTHING) * o)
                  <= 2 * DRIFT * Unit + 100
             /\ 2 * Abs(n) <= Max(2 * Abs(o0), (2 * DRIFT * Unit) \div SMOOTHING)
    ]_vars

\* Sixty idle render steps from a buffer far from the cloud, the particles
\* still off their cloud points.
C4_Witness ==
  /\ time = 61
  /\ currentGesture = "detected"
  /\ \E j \in 1..(3 * PARTICLE_COUNT) :
       /\ Abs(OffsetFrom(startPositions, randomPoints, j)) >= 1000
       /\ OffsetFrom(positions, randomPoints, j) # 0

\* The text sets with their globals.
TextSet(name) ==
  CASE name = "willYou" -> willYouPoints
    [] name = "beMy" -> beMyPoints
    [] OTHER -> valentinesPoints

\* Every point set has PARTICLE_COUNT points, as many as the buffer, and a
\* text set is its samples cycled.
C5_Lengths ==
  /\ \A name \in SetNames : Len(PointSet(name)) = PARTICLE_COUNT
  /\ Len(positions) = 3 * PARTICLE_COUNT
  /\ \A name \in {"willYou", "beMy", "valentines"} :
       LET m == Len(textSamples[name])
       IN  /\ m >= 1
           /\ \A i \in 0..(PARTICLE_COUNT - 1) :
                TextSet(name)[i + 1] = textSamples[name][(i % m) + 1]

\* C5: after startup and after any events every point set has exactly
\* PARTICLE_COUNT elements, as the buffer has points; PARTICLE_COUNT never
\* changes; element i of a text set is sample i mod M.
C5_PointSetsKeepCount ==
  []C5_Lengths /\ [][PARTICLE_COUNT' = PARTICLE_COUNT]_vars

\* A resize regenerated BE MY from fewer samples than particles, and a
\* render step followed.
C5_Witness ==
  /\ regeneration >= 1
  /\ madeBy["beMy"] = regeneration
  /\ Len(textSamples["beMy"]) < PARTICLE_COUNT
  /\ time > 1

\* C6: no render step starts from a state in which some point sets come
\* from one regeneration and others from another.
C6_NoPartialRegeneration ==
  [][time' = time + 1 => \A a \in SetNames, b \in SetNames : madeBy[a] = madeBy[b]
    ]_vars

\* The texts of a rendering that the scan leaves without a sample.
EmptyTexts(rendering, asp) ==
  { t \in DOMAIN rendering :
      Len(ScanPoints(rendering[t], getResponsiveScale(asp))) = 0 }

\* C7: when a text rasterizes to no sample, shape generation ends with a
\* configuration error and without an index computed modulo zero.
C7_ZeroSamplesRejected ==
  [][\A e \in ResizeEvents :
       (EmptyTexts(e[2], e[1]) # {} /\ OnResize(e[1], e[2], e[3])) =>
         /\ uncaught'.error = "ConfigurationError"
         /\ ~uncaught'.nanIndex
    ]_vars

\* C8: a frame that reports a hand with landmarks missing is rejected: the
\* handler does not throw and leaves the gesture none or detected.
C8_ShortFrameRejected ==
  [][\A n \in {0, 1, 9, 20} :
       OnResults(Results(<< Hand(n, <<597, 604>>, "up", "up", "down", "down") >>))
         => /\ uncaught'.error = "none"
            /\ currentGesture' \in {"none", "detected"}
    ]_vars

\* C9 as stated: once a resize has regenerated the planet, core point 0 is at
\* radius 15 times the scale factor the resize changed, at phi = 0.
C9_PlanetFollowsResize ==
  (regeneration >= 1 /\ madeBy["saturn"] = regeneration) =>
    saturnPoints[1] =
      << 0, RoundDiv(15 * getResponsiveScale(aspect), Unit * Unit), 0 >>

\* C9 as amended: in every state, before and after any resize, core point 0
\* of the planet is at radius 15 * s, s the device-tier constant, at the
\* pole phi = acos(-1).
C9_PlanetKeepsTierRadius ==
  saturnPoints[1] = << 0, -((15 * (IF isMobile THEN 6 ELSE 10) * Unit) \div 10), 0 >>

\* A resize changed the responsive scale and regenerated the planet.
C9_Witness ==
  /\ regeneration >= 1
  /\ madeBy["saturn"] = regeneration
  /\ aspect # << 16, 9 >>

\* The colour a gesture selects, as the adapter's contract names it.
C10_Colour(gesture) ==
  CASE gesture = "like" -> WARM
    [] gesture = "none" -> NEUTRAL
    [] OTHER -> COOL

\* C10: a render step takes its target and its colour from the one gesture
\* the latest landmark update wrote: fist the planet, peace WILL YOU, rock
\* BE MY, like VALENTINE?, none and detected the dispersed cloud with drift;
\* and only a landmark update changes the gesture.
C10_RenderUsesCurrentGesture ==
  [][/\ time' = time + 1 =>
          /\ targetSet' = "null" <=> currentGesture \in {"none", "detected"}
          /\ positions' =
               MorphedPositions(positions, C3_Target(currentGesture),
                                currentGesture \in {"none", "detected"}, time')
          /\ materialColor' =
               Lerp(materialColor, C10_Colour(currentGesture), COLOR_BLEND)
     /\ currentGesture' # currentGesture => Landmarks
    ]_vars

\* A second render step after startup, in a regenerated scene, with the
\* gesture like selecting VALENTINE?.
C10_Witness ==
  /\ time = 3
  /\ currentGesture = "like"
  /\ targetSet = "valentines"
  /\ regeneration >= 1
====
